---- MODULE Spec2Model ----
(***************************************************************************)
(* A model of the DKBRobo session facade (src/dkb_robo/dkb_robo.py).       *)
(*                                                                         *)
(* One facade object is constructed, then used by a single-threaded caller *)
(* through `with` statements (Enter / Exit, which may nest on the same     *)
(* object) and through its read methods, which may be called at any time   *)
(* after construction.  The two Wrapper classes (dkb_robo.legacy,          *)
(* dkb_robo.api) and dkb_robo.utilities.validate_dates are not part of the *)
(* sources at hand; they are modelled from the specification of the        *)
(* capability interface and of the date validator.                         *)
(***************************************************************************)
EXTENDS Integers, Sequences, FiniteSets, TLC

VARIABLES
    constructed,   \* whether DKBRobo.__init__ has run
    ctor,          \* the arguments __init__ was called with
    tan_insert,    \* DKBRobo.tan_insert
    legacy_login,  \* DKBRobo.legacy_login
    mfa_device,    \* DKBRobo.mfa_device
    logger,        \* DKBRobo.logger (the debug setting it was set up with)
    wrapper,       \* DKBRobo.wrapper: 0 is None, else an index into wrappers
    account_dic,   \* DKBRobo.account_dic
    last_login,    \* DKBRobo.last_login
    wrappers,      \* every Wrapper instance created so far
    depth,         \* number of `with` scopes on the object that are open
    firstKind,     \* kind of the Wrapper the first scope entry created
    lastCall,      \* the last operation of the caller and what it observed
    class_attrs,   \* the mutable defaults held by the class DKBRobo itself
    own_proxies,   \* the object's own `proxies` attribute, once assigned
    peer,          \* a second DKBRobo object of the same process
    cli            \* the run of a command of the command line interface

vars == <<constructed, ctor, tan_insert, legacy_login, mfa_device, logger,
          wrapper, account_dic, last_login, wrappers, depth, firstKind,
          lastCall, class_attrs, own_proxies, peer, cli>>

facade == <<tan_insert, legacy_login, mfa_device, logger, wrapper,
            account_dic, last_login>>

\* What the facade object and its caller do not touch
env == <<class_attrs, own_proxies, peer, cli>>

-----------------------------------------------------------------------------
(* Bounds                                                                  *)

\* Wrapper instances created over the life of the facade object.
MaxWrappers == 2

\* `with` scopes on the same object open at the same time.
MaxDepth == 2

\* logout calls on one Wrapper instance, where the caller calls __exit__
\* itself.
MaxLogouts == 2

-----------------------------------------------------------------------------
(* Errors                                                                  *)

NoErr == [kind |-> "None", msg |-> ""]

Err(k, m) == [kind |-> k, msg |-> m]

\* The error taxonomy: the root kind and its sub-kinds.
SubKinds == {"AuthenticationError", "MFARequiredError", "TransportError",
             "SessionExpiredError", "DateFormatError", "DateRangeError",
             "ConfigurationError"}

RootKind == "DKBRoboError"

IsRootKind(k) == k = RootKind \/ k \in SubKinds

\* Python's error for a method call on None (self.wrapper is None).
NoneTypeError(method) ==
    Err("AttributeError", "NoneType has no attribute " \o method)

-----------------------------------------------------------------------------
(* Dates and the date validator                                            *)

NoDate == [fmt |-> "None", y |-> 0, m |-> 0, d |-> 0]

NoDates == <<NoDate, NoDate>>

RawDate(d, m, y) == [fmt |-> "input", y |-> y, m |-> m, d |-> d]

\* The date strings a caller passes, as day.month.year.
DateInputs == {RawDate(10, 1, 2020), RawDate(10, 1, 2023),
               RawDate(10, 1, 2030), RawDate(31, 2, 2020)}

LEGACY_DATE_FORMAT == "legacy"

API_DATE_FORMAT == "api"

MaxSpanYears == 3

IsLeap(y) == (y % 4 = 0 /\ y % 100 # 0) \/ y % 400 = 0

DaysInMonth(m, y) ==
    IF m = 2 THEN (IF IsLeap(y) THEN 29 ELSE 28)
    ELSE IF m \in {4, 6, 9, 11} THEN 30 ELSE 31

WellFormed(r) ==
    /\ r.m \in 1..12
    /\ r.d >= 1
    /\ r.d <= DaysInMonth(r.m, r.y)

\* a strictly before b, as calendar dates
Before(a, b) ==
    \/ a.y < b.y
    \/ a.y = b.y /\ a.m < b.m
    \/ a.y = b.y /\ a.m = b.m /\ a.d < b.d

AddYears(a, n) == [a EXCEPT !.y = a.y + n]

Normalized(r, legacy) ==
    [r EXCEPT !.fmt = IF legacy THEN LEGACY_DATE_FORMAT ELSE API_DATE_FORMAT]

\* validate_dates(logger, date_from, date_to, max_span_years, legacy_flag)
validate_dates(date_from, date_to, max_span, legacy) ==
    IF ~WellFormed(date_from) \/ ~WellFormed(date_to)
    THEN [ok |-> FALSE, dates |-> NoDates,
          err |-> Err("DateFormatError", "malformed date")]
    ELSE IF Before(date_to, date_from)
    THEN [ok |-> FALSE, dates |-> NoDates,
          err |-> Err("DateRangeError", "date_from after date_to")]
    ELSE IF Before(AddYears(date_from, max_span), date_to)
    THEN [ok |-> FALSE, dates |-> NoDates,
          err |-> Err("DateRangeError", "range exceeds maximum span")]
    ELSE [ok |-> TRUE,
          dates |-> <<Normalized(date_from, legacy), Normalized(date_to, legacy)>>,
          err |-> NoErr]

-----------------------------------------------------------------------------
(* Values the portal returns                                               *)

NoAccounts == [a \in {} |-> [name |-> "", type |-> "", transactions |-> "",
                             details |-> ""]]

Account(n, t) == [name |-> n, type |-> t, transactions |-> "ref-" \o n,
                  details |-> "details-" \o n]

AccountDirs ==
    { [a \in {"acc1"} |-> Account("giro", "account")],
      [a \in {"acc1", "acc2"} |->
          IF a = "acc1" THEN Account("giro", "account")
                        ELSE Account("visa", "creditcard")] }

\* Records a read operation may return, in the portal's order.
ReadValues == {<<>>, <<"r1", "r2">>}

TransactionTypes == {"booked", "reserved"}

\* transaction_type values a caller may pass
TransactionTypeInputs == TransactionTypes \cup {"pending"}

\* The result of one call of a Wrapper method.
Ok(v) == [ok |-> TRUE, val |-> v, err |-> NoErr,
          accounts |-> NoAccounts, last_login |-> "None"]

Raised(e) == [ok |-> FALSE, val |-> <<>>, err |-> e,
              accounts |-> NoAccounts, last_login |-> "None"]

LoggedIn(dir, ts) == [ok |-> TRUE, val |-> <<>>, err |-> NoErr,
                      accounts |-> dir, last_login |-> ts]

-----------------------------------------------------------------------------
(* The capability interface of a Wrapper instance                          *)

\* Wrapper.login() on a fresh instance
LoginOutcomes ==
    {LoggedIn(dir, "yesterday") : dir \in AccountDirs}
        \cup {Raised(Err("AuthenticationError", "credentials rejected")),
              Raised(Err("MFARequiredError", "mfa not confirmed")),
              Raised(Err("TransportError", "portal unreachable"))}

\* Wrapper.logout() on instance w
LogoutOutcomes(w) ==
    IF w.state = "authenticated"
    THEN {Ok(<<>>), Raised(Err("TransportError", "logout failed"))}
    ELSE {Ok(<<>>)}

\* The session state of instance w after logout()
AfterLogout(w) ==
    [w EXCEPT !.state = IF w.state = "authenticated" THEN "closed" ELSE @,
              !.logouts = @ + 1]

\* A read method of instance w
ReadOutcomes(w) ==
    IF w.state # "authenticated"
    THEN {Raised(Err("SessionExpiredError", "no authenticated session"))}
    ELSE {Ok(v) : v \in ReadValues}
            \cup {Raised(Err("TransportError", "portal unreachable"))}

\* Wrapper.get_transactions(..., transaction_type) of instance w
TransactionOutcomes(w, transaction_type) ==
    IF w.state # "authenticated"
    THEN {Raised(Err("SessionExpiredError", "no authenticated session"))}
    ELSE IF transaction_type \notin TransactionTypes
    THEN {Raised(Err("ConfigurationError", "unsupported transaction type"))}
    ELSE ReadOutcomes(w)

\* One call of a Wrapper method, as the facade made it
Call(inst, method, args, dates, res) ==
    [inst |-> inst, method |-> method, args |-> args, dates |-> dates,
     res |-> res]

\* A Wrapper instance as its constructor leaves it
NewWrapper(kind, tan, mfa) ==
    [kind |-> kind, tan_insert |-> tan, mfa_device |-> mfa,
     state |-> "unauthenticated", loggedIn |-> FALSE, logouts |-> 0]

\* The instance after login() ended with res
AfterLogin(w, res) ==
    IF res.ok THEN [w EXCEPT !.state = "authenticated", !.loggedIn = TRUE]
              ELSE w

-----------------------------------------------------------------------------
(* The facade                                                              *)

\* What the caller observed of its last operation.
Observed(op, ok, val, err, calls, input, exc) ==
    [op |-> op, ok |-> ok, val |-> val, err |-> err, calls |-> calls,
     input |-> input, exc |-> exc, validator |-> <<>>]

\* An attribute that is looked up on the class until the object is assigned
\* one of its own
Unset == [set |-> FALSE, val |-> {}]

\* The second object before it is constructed: its attributes are the
\* class defaults
NoPeer == [constructed |-> FALSE, tan_insert |-> FALSE,
           legacy_login |-> FALSE, mfa_device |-> "0", logged_in |-> FALSE,
           account_dic |-> NoAccounts, last_login |-> "None",
           has_wrapper |-> FALSE, wrapper_kind |-> "None",
           wrapper_proxies |-> {}, wrapper_mfa |-> "unset"]

\* The command line interface before a command is run
NoCli == [pc |-> "idle", cmd |-> "none", DEBUG |-> FALSE, USE_TAN |-> FALSE,
          stdout |-> "", stderr |-> "", pending |-> NoErr, error |-> NoErr,
          unhandled |-> FALSE, exit_code |-> -1]

Init ==
    /\ constructed = FALSE
    /\ ctor = [tan_insert |-> FALSE, legacy_login |-> FALSE,
               debug |-> FALSE, mfa_device |-> "None"]
    /\ tan_insert = FALSE
    /\ legacy_login = FALSE
    /\ mfa_device = "0"
    /\ logger = "None"
    /\ wrapper = 0
    /\ account_dic = NoAccounts
    /\ last_login = "None"
    /\ wrappers = <<>>
    /\ depth = 0
    /\ firstKind = "None"
    /\ lastCall = Observed("none", TRUE, <<>>, NoErr, <<>>, NoDates, NoErr)
    /\ class_attrs = [proxies |-> {}, account_dic |-> NoAccounts]
    /\ own_proxies = Unset
    /\ peer = NoPeer
    /\ cli = NoCli

MfaInputs == {"None", "m"}

\* Mutant: the constructor already creates the Wrapper
ConstructEager(tan, legacy, debug, mfa) ==
    /\ ~constructed
    /\ constructed' = TRUE
    /\ ctor' = [tan_insert |-> tan, legacy_login |-> legacy,
                debug |-> debug, mfa_device |-> mfa]
    /\ tan_insert' = tan
    /\ legacy_login' = legacy
    /\ logger' = IF debug THEN "debug" ELSE "info"
    /\ mfa_device' = mfa
    /\ wrappers' = <<NewWrapper(IF tan \/ legacy THEN "Legacy" ELSE "API",
                                tan, mfa)>>
    /\ wrapper' = 1
    /\ lastCall' = Observed("__init__", TRUE, <<>>, NoErr, <<>>, NoDates, NoErr)
    /\ UNCHANGED <<account_dic, last_login, depth, firstKind>>

\* DKBRobo.__init__
Construct(tan, legacy, debug, mfa) ==
    /\ ~constructed
    /\ constructed' = TRUE
    /\ ctor' = [tan_insert |-> tan, legacy_login |-> legacy,
                debug |-> debug, mfa_device |-> mfa]
    /\ tan_insert' = tan
    /\ legacy_login' = legacy
    /\ logger' = IF debug THEN "debug" ELSE "info"
    /\ mfa_device' = mfa
    /\ lastCall' = Observed("__init__", TRUE, <<>>, NoErr, <<>>, NoDates, NoErr)
    /\ UNCHANGED <<wrapper, account_dic, last_login, wrappers, depth, firstKind>>

\* __enter__, lines 39-40: tan usage requires legacy login
ForcedLegacy(tan, legacy) == IF tan THEN TRUE ELSE legacy

\* __enter__, lines 42-43
NormalizedMfa(mfa) == IF mfa = "m" THEN "1" ELSE mfa

\* Mutant: the class is chosen from tan_insert alone
EnterKindTanOnly(tan, legacy) == IF tan THEN "Legacy" ELSE "API"

\* Mutant: the class is chosen from legacy_login as it was before
\* lines 39-40 forced it
EnterKindStale(tan, legacy) == IF legacy THEN "Legacy" ELSE "API"

\* __enter__, lines 45-51: the Wrapper class the entry instantiates
EnterKind(tan, legacy) ==
    IF ForcedLegacy(tan, legacy) THEN "Legacy" ELSE "API"

\* __enter__, lines 47 and 51: the instance the entry creates
EnterWrapper(tan, legacy, mfa) ==
    IF EnterKind(tan, legacy) = "Legacy"
    THEN NewWrapper("Legacy", tan, "unset")
    ELSE NewWrapper("API", FALSE, NormalizedMfa(mfa))

\* Mutant: self.wrapper is assigned only once login() has succeeded
EnteredWrapperOnSuccess(old, new, res) == IF res.ok THEN new ELSE old

\* __enter__, lines 47, 51 and 54: self.wrapper once login() has ended
EnteredWrapper(old, new, res) == new

\* Mutant: account_dic is assigned from whatever login() left behind
EnteredAccountsAlways(old, res) == res.accounts

\* __enter__, line 54: account_dic is assigned when login() returns and is
\* left alone when it raises
EnteredAccounts(old, res) == IF res.ok THEN res.accounts ELSE old

\* DKBRobo.__enter__, as the `with` statement calls it
Enter(res) ==
    /\ constructed
    /\ Len(wrappers) < MaxWrappers
    /\ depth < MaxDepth
    /\ legacy_login' = ForcedLegacy(tan_insert, legacy_login)
    /\ mfa_device' = NormalizedMfa(mfa_device)
    /\ wrappers' = Append(wrappers,
           AfterLogin(EnterWrapper(tan_insert, legacy_login, mfa_device), res))
    /\ wrapper' = EnteredWrapper(wrapper, Len(wrappers) + 1, res)
    /\ account_dic' = EnteredAccounts(account_dic, res)
    /\ last_login' = IF res.ok THEN res.last_login ELSE last_login
    /\ depth' = IF res.ok THEN depth + 1 ELSE depth
    /\ firstKind' = IF firstKind = "None"
                    THEN EnterKind(tan_insert, legacy_login) ELSE firstKind
    /\ lastCall' = Observed("__enter__", res.ok, <<>>, res.err,
                       <<Call(Len(wrappers) + 1, "login", <<>>, NoDates, res)>>,
                       NoDates, NoErr)
    /\ UNCHANGED <<constructed, ctor, tan_insert, logger>>

\* An error raised by the caller's own code in the body of a scope
CallerError == Err("ValueError", "body failed")

\* What the body of a scope may leave with: nothing, an error of the
\* caller's code, or the error of the facade call that just failed.
BodyErrors ==
    {NoErr, CallerError} \cup (IF lastCall.ok THEN {} ELSE {lastCall.err})

\* Mutant: logout is skipped when the body raised
ExitInvokesLogoutOnlyClean(exc) == exc = NoErr

\* __exit__, lines 58-60: logout is called whatever *args holds
ExitInvokesLogout(exc) == TRUE

\* What the `with` statement leaves the caller with: an error raised by
\* __exit__ replaces the body's; __exit__ returns None, so the body's error
\* is raised again.
ExitError(exc, lres) ==
    IF ~lres.ok THEN lres.err ELSE exc

\* DKBRobo.__exit__, as the `with` statement calls it when the body is left
Exit(exc, lres) ==
    /\ depth > 0
    /\ depth' = depth - 1
    /\ IF ExitInvokesLogout(exc)
       THEN /\ lres \in LogoutOutcomes(wrappers[wrapper])
            /\ wrappers' = [wrappers EXCEPT ![wrapper] = AfterLogout(@)]
            /\ lastCall' = Observed("__exit__", ExitError(exc, lres) = NoErr,
                               <<>>, ExitError(exc, lres),
                               <<Call(wrapper, "logout", <<>>, NoDates, lres)>>,
                               NoDates, exc)
       ELSE /\ lres = Ok(<<>>)
            /\ wrappers' = wrappers
            /\ lastCall' = Observed("__exit__", exc = NoErr, <<>>, exc, <<>>,
                               NoDates, exc)
    /\ UNCHANGED <<constructed, ctor, facade, firstKind>>

\* Mutant: an empty result is reported as an error
ForwardedResultEmptyFails(res) ==
    IF res.ok /\ res.val = <<>>
    THEN Raised(Err("DKBRoboError", "nothing found"))
    ELSE res

\* lines 65, 70, 75, 80, 94 and 99: what the Wrapper returned is returned
ForwardedResult(res) == res

\* The facade's read methods other than get_transactions: a debug line,
\* then the call of the same-named Wrapper method with the same arguments.
Forward(method, args) ==
    /\ constructed
    /\ IF wrapper = 0
       THEN lastCall' = Observed(method, FALSE, <<>>, NoneTypeError(method),
                            <<>>, NoDates, NoErr)
       ELSE \E res \in ReadOutcomes(wrappers[wrapper]) :
                lastCall' = Observed(method, ForwardedResult(res).ok,
                                ForwardedResult(res).val,
                                ForwardedResult(res).err,
                                <<Call(wrapper, method, args, NoDates, res)>>,
                                NoDates, NoErr)
    /\ UNCHANGED <<constructed, ctor, facade, wrappers, depth, firstKind>>

get_credit_limits == Forward("get_credit_limits", <<>>)

get_exemption_order == Forward("get_exemption_order", <<>>)

get_points == Forward("get_points", <<>>)

UidInputs == {"None", "7"}

get_standing_orders(uid) == Forward("get_standing_orders", <<uid>>)

PathInputs == {"None", "docs"}

scan_postbox(path) ==
    Forward("scan_postbox", <<path, "False", "False", "False">>)

\* Mutant: the Wrapper is handed the caller's dates
ForwardedDatesRaw(validated, raw) == raw

\* get_transactions, lines 89-91: date_from and date_to are rebound to what
\* validate_dates returned before the Wrapper is called
ForwardedDates(validated, raw) == validated

\* Mutant: the validator is told the flow from tan_insert
ValidatorLegacyFlagTan(tan, legacy) == tan

\* get_transactions, line 89: the legacy flag handed to validate_dates is
\* self.legacy_login
ValidatorLegacyFlag(tan, legacy) == legacy

\* One call of validate_dates, as get_transactions made it
Validation(date_from, date_to, max_span, legacy) ==
    [date_from |-> date_from, date_to |-> date_to, max_span |-> max_span,
     legacy |-> legacy]

\* DKBRobo.get_transactions
get_transactions(transaction_url, atype, date_from, date_to, transaction_type) ==
    LET flag == ValidatorLegacyFlag(tan_insert, legacy_login)
        v == validate_dates(date_from, date_to, MaxSpanYears, flag)
        raw == <<date_from, date_to>>
        args == <<transaction_url, atype, transaction_type>>
        validated == <<Validation(date_from, date_to, MaxSpanYears, flag)>>
    IN  /\ constructed
        /\ IF ~v.ok
           THEN lastCall' = [Observed("get_transactions", FALSE, <<>>, v.err,
                                 <<>>, raw, NoErr)
                                EXCEPT !.validator = validated]
           ELSE IF wrapper = 0
           THEN lastCall' = [Observed("get_transactions", FALSE, <<>>,
                                 NoneTypeError("get_transactions"), <<>>, raw,
                                 NoErr)
                                EXCEPT !.validator = validated]
           ELSE \E res \in TransactionOutcomes(wrappers[wrapper], transaction_type) :
                    lastCall' = [Observed("get_transactions",
                                     ForwardedResult(res).ok,
                                     ForwardedResult(res).val,
                                     ForwardedResult(res).err,
                                     <<Call(wrapper, "get_transactions", args,
                                            ForwardedDates(v.dates, raw), res)>>,
                                     raw, NoErr)
                                    EXCEPT !.validator = validated]
        /\ UNCHANGED <<constructed, ctor, facade, wrappers, depth, firstKind>>

ReadOps == {"get_credit_limits", "get_exemption_order", "get_points",
            "get_standing_orders", "get_transactions", "scan_postbox"}

\* What Wrapper.logout() may end with on any instance
AnyLogoutOutcome == {Ok(<<>>), Raised(Err("TransportError", "logout failed"))}

Next ==
    \/ \E tan, legacy, debug \in BOOLEAN, mfa \in MfaInputs :
            Construct(tan, legacy, debug, mfa) /\ UNCHANGED env
    \/ \E res \in LoginOutcomes : Enter(res) /\ UNCHANGED env
    \/ \E exc \in BodyErrors, lres \in AnyLogoutOutcome :
            Exit(exc, lres) /\ UNCHANGED env
    \/ get_credit_limits /\ UNCHANGED env
    \/ get_exemption_order /\ UNCHANGED env
    \/ get_points /\ UNCHANGED env
    \/ \E uid \in UidInputs : get_standing_orders(uid) /\ UNCHANGED env
    \/ \E path \in PathInputs : scan_postbox(path) /\ UNCHANGED env
    \/ \E date_from, date_to \in DateInputs, tt \in TransactionTypeInputs :
            get_transactions("ref-giro", "account", date_from, date_to, tt)
                /\ UNCHANGED env

Spec == Init /\ [][Next]_vars

-----------------------------------------------------------------------------
(* A caller that calls __exit__ itself, outside any `with` statement       *)

\* DKBRobo.__exit__(None, None, None), called directly
DirectExit(lres) ==
    /\ constructed
    /\ IF wrapper = 0
       THEN /\ lres = Ok(<<>>)
            /\ wrappers' = wrappers
            /\ lastCall' = Observed("direct __exit__", FALSE, <<>>,
                               NoneTypeError("logout"), <<>>, NoDates, NoErr)
       ELSE /\ wrappers[wrapper].logouts < MaxLogouts
            /\ lres \in LogoutOutcomes(wrappers[wrapper])
            /\ wrappers' = [wrappers EXCEPT ![wrapper] = AfterLogout(@)]
            /\ lastCall' = Observed("direct __exit__", lres.ok, <<>>, lres.err,
                               <<Call(wrapper, "logout", <<>>, NoDates, lres)>>,
                               NoDates, NoErr)
    /\ UNCHANGED <<constructed, ctor, facade, depth, firstKind>>

NextDirect ==
    \/ \E tan, legacy, debug \in BOOLEAN, mfa \in MfaInputs :
            Construct(tan, legacy, debug, mfa) /\ UNCHANGED env
    \/ \E res \in LoginOutcomes : Enter(res) /\ UNCHANGED env
    \/ \E exc \in BodyErrors, lres \in AnyLogoutOutcome :
            Exit(exc, lres) /\ UNCHANGED env
    \/ \E lres \in AnyLogoutOutcome : DirectExit(lres) /\ UNCHANGED env

SpecDirect == Init /\ [][NextDirect]_vars

-----------------------------------------------------------------------------
(* Two DKBRobo objects in one process                                      *)

\* Entries a caller may put into a proxies dict
ProxyEntries == {"http=proxy:3128"}

\* self.proxies of the first object: its own attribute if it was assigned
\* one, else the dict of the class (line 20)
Proxies == IF own_proxies.set THEN own_proxies.val ELSE class_attrs.proxies

\* self.proxies of the second object, which is never assigned one
PeerProxies == class_attrs.proxies

\* Whether line 54 has given the first object an account_dic of its own
HasOwnAccounts == \E i \in DOMAIN wrappers : wrappers[i].loggedIn

\* self.account_dic of the second object: the dict of the class (line 23)
\* until its own login assigns one
PeerAccounts ==
    IF peer.logged_in THEN peer.account_dic ELSE class_attrs.account_dic

\* DKBRobo.__init__ of the second object
PeerConstruct(tan, legacy, mfa) ==
    /\ ~peer.constructed
    /\ peer' = [peer EXCEPT !.constructed = TRUE, !.tan_insert = tan,
                            !.legacy_login = legacy, !.mfa_device = mfa]
    /\ UNCHANGED <<constructed, ctor, facade, wrappers, depth, firstKind,
                   lastCall, class_attrs, own_proxies, cli>>

\* DKBRobo.__enter__ of the second object
PeerEnter(res) ==
    /\ peer.constructed
    /\ ~peer.has_wrapper
    /\ peer' = [peer EXCEPT
          !.legacy_login = ForcedLegacy(peer.tan_insert, peer.legacy_login),
          !.mfa_device = NormalizedMfa(peer.mfa_device),
          !.has_wrapper = TRUE,
          !.wrapper_kind = EnterKind(peer.tan_insert, peer.legacy_login),
          !.wrapper_proxies = PeerProxies,
          !.wrapper_mfa = EnterWrapper(peer.tan_insert, peer.legacy_login,
                                       peer.mfa_device).mfa_device,
          !.logged_in = res.ok,
          !.account_dic = EnteredAccounts(PeerAccounts, res),
          !.last_login = IF res.ok THEN res.last_login ELSE @]
    /\ UNCHANGED <<constructed, ctor, facade, wrappers, depth, firstKind,
                   lastCall, class_attrs, own_proxies, cli>>

\* d.proxies[key] = value, through the first object: the dict that
\* d.proxies resolves to is changed in place
SetProxyItem(entry) ==
    /\ constructed
    /\ IF own_proxies.set
       THEN /\ own_proxies' = [own_proxies EXCEPT !.val = @ \cup {entry}]
            /\ class_attrs' = class_attrs
       ELSE /\ class_attrs' = [class_attrs EXCEPT !.proxies = @ \cup {entry}]
            /\ own_proxies' = own_proxies
    /\ UNCHANGED <<constructed, ctor, facade, wrappers, depth, firstKind,
                   lastCall, peer, cli>>

\* d.proxies = {...}, through the first object: it gets its own attribute
AssignProxies(val) ==
    /\ constructed
    /\ own_proxies' = [set |-> TRUE, val |-> val]
    /\ UNCHANGED <<constructed, ctor, facade, wrappers, depth, firstKind,
                   lastCall, class_attrs, peer, cli>>

\* d.mfa_device = 2, through the first object: __init__ gave it its own
AssignMfa ==
    /\ constructed
    /\ mfa_device' = "2"
    /\ UNCHANGED <<constructed, ctor, tan_insert, legacy_login, logger,
                   wrapper, account_dic, last_login, wrappers, depth,
                   firstKind, lastCall, env>>

\* The directory d with the record of account "added" put into it
WithAdded(d) ==
    [a \in DOMAIN d \cup {"added"} |->
        IF a = "added" THEN Account("added", "account") ELSE d[a]]

\* d.account_dic["added"] = record, through the first object: the dict that
\* d.account_dic resolves to is changed in place
SetAccountItem ==
    /\ constructed
    /\ account_dic' = WithAdded(account_dic)
    /\ class_attrs' = IF HasOwnAccounts THEN class_attrs
                      ELSE [class_attrs EXCEPT !.account_dic = WithAdded(@)]
    /\ UNCHANGED <<constructed, ctor, tan_insert, legacy_login, mfa_device,
                   logger, wrapper, last_login, wrappers, depth, firstKind,
                   lastCall, own_proxies, peer, cli>>

NextShared ==
    \/ \E tan \in BOOLEAN, mfa \in MfaInputs :
            Construct(tan, FALSE, FALSE, mfa) /\ UNCHANGED env
    \/ \E res \in LoginOutcomes : Enter(res) /\ UNCHANGED env
    \/ \E tan \in BOOLEAN, mfa \in MfaInputs :
            PeerConstruct(tan, FALSE, mfa)
    \/ \E res \in LoginOutcomes : PeerEnter(res)
    \/ \E entry \in ProxyEntries : SetProxyItem(entry)
    \/ \E val \in SUBSET ProxyEntries : AssignProxies(val)
    \/ AssignMfa
    \/ SetAccountItem

SpecShared == Init /\ [][NextShared]_vars

-----------------------------------------------------------------------------
(* The command line interface (src/dkb_robo/cli.py): one run of a command  *)

Commands == {"accounts", "transactions", "last_login", "credit_limits",
             "standing_orders"}

\* main, lines 58-65: the options are stored in ctx.obj
CliMain(debug, use_tan, cmd) ==
    /\ cli.pc = "idle"
    /\ cli' = [cli EXCEPT !.pc = "login", !.cmd = cmd, !.DEBUG = debug,
                          !.USE_TAN = use_tan]
    /\ UNCHANGED <<constructed, ctor, facade, wrappers, depth, firstKind,
                   lastCall, class_attrs, own_proxies, peer>>

\* _login, lines 212-215: DKBRobo(USERNAME, PASSWORD, USE_TAN, DEBUG), four
\* positional arguments of __init__(dkb_user, dkb_password, tan_insert,
\* legacy_login, debug, mfa_device)
LoginArgs(use_tan, debug) ==
    [tan_insert |-> use_tan, legacy_login |-> debug, debug |-> FALSE,
     mfa_device |-> "None"]

\* `_login(ctx)` in the `with` line of a command
CliLogin ==
    /\ cli.pc = "login"
    /\ LET a == LoginArgs(cli.USE_TAN, cli.DEBUG)
       IN  Construct(a.tan_insert, a.legacy_login, a.debug, a.mfa_device)
    /\ cli' = [cli EXCEPT !.pc = "enter"]
    /\ UNCHANGED <<class_attrs, own_proxies, peer>>

\* The end of a command that raised err: `except dkb_robo.DKBRoboError`
\* echoes args[0] to the error stream and the command returns, so the
\* process ends with status 0; any other error is not caught and ends the
\* process with a traceback and status 1.
Failed(c, err) ==
    IF IsRootKind(err.kind)
    THEN [c EXCEPT !.pc = "done", !.error = err, !.stderr = err.msg,
                   !.exit_code = 0]
    ELSE [c EXCEPT !.pc = "done", !.error = err, !.stderr = "Traceback",
                   !.unhandled = TRUE, !.exit_code = 1]

\* The `with` line of a command: __enter__
CliEnter(res) ==
    /\ cli.pc = "enter"
    /\ Enter(res)
    /\ cli' = IF res.ok THEN [cli EXCEPT !.pc = "body"] ELSE Failed(cli, res.err)
    /\ UNCHANGED <<class_attrs, own_proxies, peer>>

\* accounts, lines 75-77: del value["details"]; del value["transactions"]
Stripped(r) == [f \in DOMAIN r \ {"details", "transactions"} |-> r[f]]

\* accounts, lines 74-78
CliAccounts ==
    /\ cli.pc = "body"
    /\ cli.cmd = "accounts"
    /\ account_dic' = [a \in DOMAIN account_dic |-> Stripped(account_dic[a])]
    /\ cli' = [cli EXCEPT !.pc = "exit", !.stdout = "accounts"]
    /\ UNCHANGED <<constructed, ctor, tan_insert, legacy_login, mfa_device,
                   logger, wrapper, last_login, wrappers, depth, firstKind,
                   lastCall, class_attrs, own_proxies, peer>>

\* Values of --name
NameInputs == {"giro", "nosuch"}

\* Values of --date-from and --date-to that click.DateTime accepts
CliDateInputs == {d \in DateInputs : WellFormed(d)}

\* transactions, lines 130-132
Filtered(name) == {a \in DOMAIN account_dic : account_dic[a].name = name}

\* The body of a command after a facade call: the result is printed, or
\* the error leaves the `with` block
AfterRead(c, what) ==
    IF lastCall'.ok THEN [c EXCEPT !.pc = "exit", !.stdout = what]
                    ELSE [c EXCEPT !.pc = "exit", !.pending = lastCall'.err]

\* transactions, lines 129-144
CliTransactions(name, date_from, date_to, transaction_type) ==
    /\ cli.pc = "body"
    /\ cli.cmd = "transactions"
    /\ IF Filtered(name) = {}
       THEN /\ cli' = [cli EXCEPT !.pc = "exit",
                                  !.stderr = "No account found matching " \o name]
            /\ UNCHANGED <<constructed, ctor, facade, wrappers, depth,
                           firstKind, lastCall>>
       ELSE LET the_account == account_dic[CHOOSE a \in Filtered(name) : TRUE]
            IN  /\ get_transactions(the_account.transactions, the_account.type,
                                    date_from, date_to, transaction_type)
                /\ cli' = AfterRead(cli, "transactions")
    /\ UNCHANGED <<class_attrs, own_proxies, peer>>

\* last_login, line 156
CliLastLogin ==
    /\ cli.pc = "body"
    /\ cli.cmd = "last_login"
    /\ cli' = [cli EXCEPT !.pc = "exit", !.stdout = "last_login " \o last_login]
    /\ UNCHANGED <<constructed, ctor, facade, wrappers, depth, firstKind,
                   lastCall, class_attrs, own_proxies, peer>>

\* credit_limits, lines 167-169
CliCreditLimits ==
    /\ cli.pc = "body"
    /\ cli.cmd = "credit_limits"
    /\ get_credit_limits
    /\ cli' = AfterRead(cli, "limits")
    /\ UNCHANGED <<class_attrs, own_proxies, peer>>

\* standing_orders, line 180
CliStandingOrders ==
    /\ cli.pc = "body"
    /\ cli.cmd = "standing_orders"
    /\ get_standing_orders("None")
    /\ cli' = AfterRead(cli, "standing_orders")
    /\ UNCHANGED <<class_attrs, own_proxies, peer>>

\* The end of the `with` block of a command: __exit__, then the `except`
\* clause or the normal return of the command
CliExit(lres) ==
    /\ cli.pc = "exit"
    /\ Exit(cli.pending, lres)
    /\ cli' = IF lastCall'.ok
              THEN [cli EXCEPT !.pc = "done", !.exit_code = 0]
              ELSE Failed(cli, lastCall'.err)
    /\ UNCHANGED <<class_attrs, own_proxies, peer>>

NextCli ==
    \/ \E debug, use_tan \in BOOLEAN, cmd \in Commands :
            CliMain(debug, use_tan, cmd)
    \/ CliLogin
    \/ \E res \in LoginOutcomes : CliEnter(res)
    \/ CliAccounts
    \/ \E name \in NameInputs, date_from, date_to \in CliDateInputs,
          tt \in TransactionTypes :
            CliTransactions(name, date_from, date_to, tt)
    \/ CliLastLogin
    \/ CliCreditLimits
    \/ CliStandingOrders
    \/ \E lres \in AnyLogoutOutcome : CliExit(lres)

SpecCli == Init /\ [][NextCli]_vars

-----------------------------------------------------------------------------
(* Properties                                                              *)

Calls == {lastCall.calls[i] : i \in DOMAIN lastCall.calls}

IsRead == lastCall.op \in ReadOps

\* The instance the most recent scope entry created
Latest == wrappers[Len(wrappers)]

\* C1: whenever a scope is left, by a normal return of its body or by an
\* error, __exit__ has called logout on the facade's active Wrapper.
C1_ExitCallsLogout ==
    lastCall.op = "__exit__" =>
        \E c \in Calls : c.method = "logout" /\ c.inst = wrapper

C1_Witness ==
    /\ lastCall.op = "__exit__"
    /\ lastCall.exc # NoErr
    /\ \E c \in Calls : c.method = "logout" /\ c.inst = wrapper

\* C2: when login raises during scope entry the scope is not entered and
\* logout has been attempted on the Wrapper before the caller gets the error.
C2_FailedLoginLogsOut ==
    [][(lastCall'.op = "__enter__" /\ ~lastCall'.ok) =>
          /\ depth' = depth
          /\ \E i \in DOMAIN lastCall'.calls :
                 lastCall'.calls[i].method = "logout"]_vars

\* C3: an error of logout at scope exit never reaches the caller: the caller
\* is left with the body's error, or with none when the body returned.
C3_LogoutErrorSwallowed ==
    lastCall.op = "__exit__" => lastCall.err = lastCall.exc

\* C4 as claimed: every Wrapper created is Legacy exactly when tan_insert
\* is set.
C4_KindFromTanAlone ==
    \A i \in DOMAIN wrappers : wrappers[i].kind = "Legacy" <=> tan_insert

\* C4 as amended: every Wrapper created is Legacy exactly when tan_insert or
\* legacy_login was passed as true to the constructor, whatever debug and
\* mfa_device were and however many entries, reads and exits came before.
C4_KindFromTanOrLegacy ==
    \A i \in DOMAIN wrappers :
        wrappers[i].kind = "Legacy" <=> (ctor.tan_insert \/ ctor.legacy_login)

C4_Witness ==
    /\ Len(wrappers) >= 2
    /\ ~ctor.tan_insert
    /\ ctor.legacy_login
    /\ wrappers[2].kind = "Legacy"

\* C5: every Wrapper the object ever creates, and so every Wrapper call it
\* makes, is of the kind its first scope entry selected.
C5_KindFixed ==
    /\ \A i \in DOMAIN wrappers : wrappers[i].kind = firstKind
    /\ \A c \in Calls : wrappers[c.inst].kind = firstKind

C5_Witness ==
    /\ Len(wrappers) >= 2
    /\ IsRead
    /\ \E c \in Calls : c.inst = 2 /\ c.res.ok

\* C6: get_transactions validates before it forwards: a rejected range fails
\* with the validator's error and no Wrapper call, 10.01.2020 to 10.01.2030
\* is rejected with DateRangeError, and a Wrapper call carries exactly the
\* pair the validator returned.
C6_ValidatorFirst ==
    lastCall.op = "get_transactions" =>
        LET v == validate_dates(lastCall.input[1], lastCall.input[2],
                                MaxSpanYears, legacy_login)
        IN  /\ ~v.ok => /\ ~lastCall.ok
                        /\ lastCall.err = v.err
                        /\ Calls = {}
            /\ lastCall.input = <<RawDate(10, 1, 2020), RawDate(10, 1, 2030)>>
                  => /\ lastCall.err.kind = "DateRangeError"
                     /\ Calls = {}
            /\ \A c \in Calls : /\ c.method = "get_transactions"
                                /\ v.ok
                                /\ c.dates = v.dates
                                /\ c.dates[1].fmt # "input"

C6_Witness ==
    /\ lastCall.op = "get_transactions"
    /\ lastCall.input = <<RawDate(10, 1, 2020), RawDate(10, 1, 2030)>>
    /\ lastCall.err.kind = "DateRangeError"
    /\ wrapper # 0
    /\ wrappers[wrapper].state = "authenticated"

\* C7: a read made while no scope is open (before the first entry, or after
\* the exits) fails with SessionExpiredError.
C7_ReadOutsideScopeExpired ==
    (IsRead /\ depth = 0) =>
        ~lastCall.ok /\ lastCall.err.kind = "SessionExpiredError"

LoginErrorKinds == {r.err.kind : r \in {o \in LoginOutcomes : ~o.ok}}

\* C8 as claimed: once the latest login has failed, a read fails with
\* SessionExpiredError or the login's error and no Wrapper call succeeds.
C8_ReadAfterFailedLogin ==
    (IsRead /\ Len(wrappers) > 0 /\ ~Latest.loggedIn) =>
        /\ ~lastCall.ok
        /\ lastCall.err.kind \in {"SessionExpiredError"} \cup LoginErrorKinds
        /\ \A c \in Calls : ~c.res.ok

\* C8 as amended: once the latest login has failed, a read fails; its error
\* is SessionExpiredError, or for get_transactions the validator's error when
\* the validator rejects the dates; no Wrapper call succeeds.
C8_ReadAfterFailedLoginFails ==
    (IsRead /\ Len(wrappers) > 0 /\ ~Latest.loggedIn) =>
        /\ ~lastCall.ok
        /\ \A c \in Calls : ~c.res.ok
        /\ \/ lastCall.err.kind = "SessionExpiredError"
           \/ /\ lastCall.op = "get_transactions"
              /\ lastCall.err.kind \in {"DateFormatError", "DateRangeError"}
              /\ Calls = {}

C8_Witness ==
    /\ IsRead
    /\ Len(wrappers) = 2
    /\ wrappers[1].state = "authenticated"
    /\ ~Latest.loggedIn
    /\ lastCall.err.kind = "SessionExpiredError"

\* C9: an error that login or a read leaves the caller with is of the root
\* kind and carries the message of the Wrapper's error.
C9_OnlyRootKindEscapes ==
    (~lastCall.ok /\ (IsRead \/ lastCall.op = "__enter__")) =>
        /\ IsRootKind(lastCall.err.kind)
        /\ \A c \in Calls : ~c.res.ok => lastCall.err.msg = c.res.err.msg

\* C10: no Wrapper whose login succeeded is logged out twice, and once all
\* scopes are left each of them has been logged out exactly once.
C10_LogoutExactlyOnce ==
    \A i \in DOMAIN wrappers :
        wrappers[i].loggedIn =>
            /\ wrappers[i].logouts <= 1
            /\ depth = 0 => wrappers[i].logouts = 1

\* C12 as claimed: after a scope entry whose login raised, the facade's
\* account directory holds no account records.
C12_NoDirectoryAfterFailedLogin ==
    (lastCall.op = "__enter__" /\ ~lastCall.ok) => account_dic = NoAccounts

\* C12 as amended: a scope entry whose login raised leaves account_dic and
\* last_login exactly as they were; the directory is empty as long as no
\* login of the object has succeeded and is otherwise a complete directory a
\* login returned, never a partly filled one.
C12_FailedLoginKeepsDirectory ==
    /\ [](/\ account_dic \in AccountDirs \cup {NoAccounts}
          /\ (\A i \in DOMAIN wrappers : ~wrappers[i].loggedIn)
                => account_dic = NoAccounts)
    /\ [][(lastCall'.op = "__enter__" /\ ~lastCall'.ok) =>
             /\ account_dic' = account_dic
             /\ last_login' = last_login]_vars

C12_Witness ==
    /\ lastCall.op = "__enter__"
    /\ ~lastCall.ok
    /\ lastCall.err.kind = "MFARequiredError"
    /\ account_dic \in AccountDirs

\* C13: a read makes at most one Wrapper call, exactly one when there is a
\* Wrapper and the dates pass the validator; the call is to the method of the
\* same name on the active Wrapper and its result, value or error, is what
\* the caller gets, an empty result as an empty sequence.
C13_PassThrough ==
    IsRead =>
        /\ Len(lastCall.calls) <= 1
        /\ \A c \in Calls :
              /\ c.method = lastCall.op
              /\ c.inst = wrapper
              /\ lastCall.ok = c.res.ok
              /\ lastCall.val = c.res.val
              /\ lastCall.err = c.res.err
        /\ (/\ wrapper # 0
            /\ lastCall.op = "get_transactions" =>
                  validate_dates(lastCall.input[1], lastCall.input[2],
                                 MaxSpanYears, legacy_login).ok)
              => Len(lastCall.calls) = 1

C13_Witness ==
    /\ lastCall.op = "get_transactions"
    /\ Len(lastCall.calls) = 1
    /\ lastCall.calls[1].res.ok
    /\ lastCall.calls[1].res.val = <<>>
    /\ lastCall.ok
    /\ lastCall.val = <<>>

\* C16: the constructor creates no Wrapper and makes no Wrapper call; no
\* Wrapper call is made before the first scope entry, and the call a scope
\* entry makes is login on the Wrapper it has just selected and created.
C16_ConstructionIsLocal ==
    /\ lastCall.op = "__init__" =>
          wrappers = <<>> /\ wrapper = 0 /\ Calls = {}
    /\ wrappers = <<>> => Calls = {}
    /\ lastCall.op = "__enter__" =>
          /\ Len(lastCall.calls) = 1
          /\ lastCall.calls[1].method = "login"
          /\ lastCall.calls[1].inst = Len(wrappers)

C16_Witness ==
    /\ constructed
    /\ lastCall.op = "__init__"
    /\ wrappers = <<>>

\* C18: get_transactions calls the validator once, with the caller's dates,
\* a maximum span of 3 under either kind of Wrapper, and a legacy flag that
\* is true exactly when the active Wrapper is the Legacy one.
C18_ValidatorArguments ==
    lastCall.op = "get_transactions" =>
        /\ Len(lastCall.validator) = 1
        /\ lastCall.validator[1].max_span = 3
        /\ <<lastCall.validator[1].date_from, lastCall.validator[1].date_to>>
              = lastCall.input
        /\ wrapper # 0 =>
              (lastCall.validator[1].legacy
                  <=> wrappers[wrapper].kind = "Legacy")

C18_Witness ==
    /\ lastCall.op = "get_transactions"
    /\ wrapper # 0
    /\ wrappers[wrapper].kind = "Legacy"
    /\ ~tan_insert
    /\ lastCall.validator[1].legacy
    /\ lastCall.validator[1].max_span = 3

\* C17: a direct call of __exit__ never raises, whether no scope was ever
\* entered, the login failed, or the Wrapper was already logged out.
C17_ExitNeverRaises ==
    lastCall.op = "direct __exit__" => lastCall.ok

\* C14: nothing is ever set through the second object, so what it holds and
\* what it hands to its Wrapper are the defaults and its own constructor
\* arguments, whatever was set through the first object.
C14_NothingShared ==
    peer.constructed =>
        /\ PeerProxies = {}
        /\ peer.has_wrapper => peer.wrapper_proxies = {}
        /\ ~peer.logged_in => PeerAccounts = NoAccounts
        /\ peer.mfa_device # "2"
        /\ peer.wrapper_mfa # "2"

\* C11: account_dic is changed by a login only: a step that creates and
\* logs in no Wrapper leaves every key and every field of it as it was.
C11_DirectoryChangedByLoginOnly ==
    [][wrappers' = wrappers => account_dic' = account_dic]_vars

\* C15: a command that ended on an error of the taxonomy has printed the
\* error's message to the error stream, has not died of an unhandled error
\* and has ended with a status other than zero.
C15_ErrorsReported ==
    (cli.pc = "done" /\ cli.error # NoErr /\ IsRootKind(cli.error.kind)) =>
        /\ cli.stderr = cli.error.msg
        /\ ~cli.unhandled
        /\ cli.exit_code # 0

\* C19: the object a command logs in through has the debug setting of
\* --debug, and its Wrapper is the Legacy one exactly when --use-tan was
\* given, whatever --debug was.
C19_VariantFromUseTanOnly ==
    constructed =>
        /\ ctor.debug = cli.DEBUG
        /\ \A i \in DOMAIN wrappers :
              wrappers[i].kind = "Legacy" <=> cli.USE_TAN

====
